---------------------------- MODULE Spec2Model ----------------------------
(***************************************************************************)
(* Model of the per-client sentence builder of backend/app.py:             *)
(* observation window, majority-vote smoother, commit state machine,       *)
(* word-boundary detector, lexical corrector and the session store.        *)
(*                                                                         *)
(* Conventions                                                             *)
(*   - a Python str is a sequence of one-character strings;                *)
(*   - a confidence is an integer number of hundredths (0.5 is 50);        *)
(*   - a time is an integer number of tenths of a second (1.2 s is 12);    *)
(*   - the timestamp stored as third component of a pred_hist entry is     *)
(*     left out of the entries: no code reads it (majority_vote_label      *)
(*     binds and drops it).                                                *)
(***************************************************************************)
EXTENDS Integers, Sequences, FiniteSets, TLC

VARIABLES
    labels,     \* app.py:55/108  class labels loaded at startup
    wordlist,   \* app.py:222     dictionary loaded at startup
    sessions,   \* app.py:212     client_id -> session state (a partial map)
    now,        \* the last value time.time() returned
    threads,    \* requests in flight, executed statement by statement
    heap,       \* the session objects the requests in flight refer to
    ret,        \* what the last completed call returned
    clients,    \* the client identifiers the callers use
    hist        \* per client: run-length encoding of the observations fed
                \* since its session was created (history, not program state)

vars == <<labels, wordlist, sessions, now, threads, heap, ret, clients, hist>>

---------------------------------------------------------------------------
(* Bounds of the model *)

\* the clock stops being advanced beyond MaxTime
MaxTime == 12
\* no request is accepted that would commit more than MaxLetters letters
MaxLetters == 2
\* the observations fed to one session change (label, confidence or hand
\* presence differing from the observation before) at most MaxFlips times
MaxFlips == 2

(* Program constants *)

SMOOTH_WINDOW == 8
HOLD_FRAMES == 6
\* 1.2 s, in tenths of a second
WORD_PAUSE_SECONDS == 12
\* 0.5, in hundredths
MIN_CONFIDENCE_TO_ACCEPT == 50
\* difflib.get_close_matches(..., n=max_suggestions, cutoff=0.7)
max_suggestions == 3
\* cutoff 0.7 as the fraction CutoffNum / CutoffDen
CutoffNum == 7
CutoffDen == 10

\* Python's None where a label index is expected
None == -1


---------------------------------------------------------------------------
(* Python str operations, on sequences of one-character strings *)

Sep == " "

\* the characters the model's labels, dictionary files and str(int) use
Chars == {" ", "0", "1", "2", "A", "B", "H", "a", "b", "e", "h", "l", "o"}

\* ord(ch): Python orders str by code point
Ord(ch) ==
    CASE ch = " " -> 32 [] ch = "0" -> 48 [] ch = "1" -> 49 [] ch = "2" -> 50
      [] ch = "A" -> 65 [] ch = "B" -> 66 [] ch = "H" -> 72
      [] ch = "a" -> 97 [] ch = "b" -> 98 [] ch = "e" -> 101
      [] ch = "h" -> 104 [] ch = "l" -> 108 [] ch = "o" -> 111

\* str.lower() of one character
LowerChar(ch) ==
    CASE ch = "A" -> "a" [] ch = "B" -> "b" [] ch = "H" -> "h" [] OTHER -> ch

\* str.lower()
Lower(str) == [i \in 1..Len(str) |-> LowerChar(str[i])]

\* str(i) for an int 0 <= i <= 29 (decimal digits, no leading zero)
Digit(d) == CASE d = 0 -> "0" [] d = 1 -> "1" [] d = 2 -> "2"
StrOfInt(i) == IF i < 10 THEN <<Digit(i)>> ELSE <<Digit(i \div 10), Digit(i % 10)>>

\* str.endswith(" ")
EndsWithSep(str) == Len(str) > 0 /\ str[Len(str)] = Sep

\* str.rstrip(): drop the trailing whitespace
RECURSIVE RStrip(_)
RStrip(str) ==
    IF EndsWithSep(str) THEN RStrip(SubSeq(str, 1, Len(str) - 1)) ELSE str

\* str.lstrip()
RECURSIVE LStrip(_)
LStrip(str) ==
    IF Len(str) > 0 /\ str[1] = Sep THEN LStrip(Tail(str)) ELSE str

\* str.strip()
Strip(str) == LStrip(RStrip(str))

\* str.split(" "): cut at every separator, empty pieces kept
RECURSIVE Split(_)
Split(str) ==
    IF \A i \in 1..Len(str) : str[i] # Sep
    THEN <<str>>
    ELSE LET i == CHOOSE k \in 1..Len(str) :
                      /\ str[k] = Sep
                      /\ \A m \in 1..(k - 1) : str[m] # Sep
         IN  <<SubSeq(str, 1, i - 1)>> \o Split(SubSeq(str, i + 1, Len(str)))

\* " ".join(parts)
RECURSIVE Join(_)
Join(parts) ==
    IF Len(parts) = 0 THEN <<>>
    ELSE IF Len(parts) = 1 THEN parts[1]
    ELSE parts[1] \o <<Sep>> \o Join(Tail(parts))

\* x < y for two str (lexicographic by code point)
RECURSIVE StrLess(_, _)
StrLess(x, y) ==
    IF Len(y) = 0 THEN FALSE
    ELSE IF Len(x) = 0 THEN TRUE
    ELSE IF x[1] # y[1] THEN Ord(x[1]) < Ord(y[1])
    ELSE StrLess(Tail(x), Tail(y))

---------------------------------------------------------------------------
(* difflib.SequenceMatcher and get_close_matches (CPython's difflib, which  *)
(* app.py:231 imports).  Indices are Python's: 0-based, ranges half-open.   *)
(* No element is junk: autojunk only acts on sequences of 200 elements.     *)

\* length of the common run of a[i:ahi] and b[j:bhi]
RECURSIVE RunLen(_, _, _, _, _, _)
RunLen(a, b, i, j, ahi, bhi) ==
    IF i >= ahi \/ j >= bhi \/ a[i + 1] # b[j + 1] THEN 0
    ELSE 1 + RunLen(a, b, i + 1, j + 1, ahi, bhi)

\* SequenceMatcher.find_longest_match: the longest block, of those the one
\* starting earliest in a, of those the one starting earliest in b
find_longest_match(a, b, alo, ahi, blo, bhi) ==
    LET P == (alo..(ahi - 1)) \X (blo..(bhi - 1))
        K == [p \in P |-> RunLen(a, b, p[1], p[2], ahi, bhi)]
    IN  IF \A p \in P : K[p] = 0
        THEN <<alo, blo, 0>>
        ELSE LET best == CHOOSE p \in P :
                     \A q \in P :
                        \/ K[q] < K[p]
                        \/ K[q] = K[p] /\ p[1] < q[1]
                        \/ K[q] = K[p] /\ p[1] = q[1] /\ p[2] <= q[2]
             IN  <<best[1], best[2], K[best]>>

\* the sum of the sizes of SequenceMatcher.get_matching_blocks
RECURSIVE matching(_, _, _, _, _, _)
matching(a, b, alo, ahi, blo, bhi) ==
    LET x == find_longest_match(a, b, alo, ahi, blo, bhi)
        i == x[1]
        j == x[2]
        k == x[3]
    IN  IF k = 0 THEN 0
        ELSE k + (IF alo < i /\ blo < j
                  THEN matching(a, b, alo, i, blo, j) ELSE 0)
               + (IF i + k < ahi /\ j + k < bhi
                  THEN matching(a, b, i + k, ahi, j + k, bhi) ELSE 0)

\* difflib._calculate_ratio, as the fraction num / den
calculate_ratio(matches, length) ==
    IF length > 0 THEN [num |-> 2 * matches, den |-> length]
    ELSE [num |-> 1, den |-> 1]

\* SequenceMatcher(a, b).ratio()
ratio(a, b) ==
    calculate_ratio(matching(a, b, 0, Len(a), 0, Len(b)), Len(a) + Len(b))

\* how often ch occurs in str
RECURSIVE Count(_, _)
Count(str, ch) ==
    IF Len(str) = 0 THEN 0
    ELSE (IF str[1] = ch THEN 1 ELSE 0) + Count(Tail(str), ch)

Min(x, y) == IF x <= y THEN x ELSE y

RECURSIVE SumOver(_, _, _, _)
SumOver(S, a, b, acc) ==
    IF S = {} THEN acc
    ELSE LET ch == CHOOSE c \in S : TRUE
         IN  SumOver(S \ {ch}, a, b, acc + Min(Count(a, ch), Count(b, ch)))

\* SequenceMatcher(a, b).quick_ratio(): the multiset intersection
quick_ratio(a, b) ==
    calculate_ratio(SumOver({a[i] : i \in 1..Len(a)}, a, b, 0), Len(a) + Len(b))

\* SequenceMatcher(a, b).real_quick_ratio()
real_quick_ratio(a, b) ==
    calculate_ratio(Min(Len(a), Len(b)), Len(a) + Len(b))

\* r >= cutoff
AtLeastCutoff(r) == r.num * CutoffDen >= CutoffNum * r.den

\* (score1, x1) > (score2, x2), as Python compares tuples
TupleGreater(p, q) ==
    \/ p.score.num * q.score.den > q.score.num * p.score.den
    \/ /\ p.score.num * q.score.den = q.score.num * p.score.den
       /\ StrLess(q.x, p.x)

\* heapq.nlargest(n, result): the n greatest, greatest first
RECURSIVE nlargest(_, _)
nlargest(n, result) ==
    IF n = 0 \/ Len(result) = 0 THEN <<>>
    ELSE LET m == CHOOSE i \in 1..Len(result) :
                      \A k \in 1..Len(result) :
                          \/ k = i
                          \/ TupleGreater(result[i], result[k])
                          \/ ~TupleGreater(result[k], result[i]) /\ i < k
             rest == SubSeq(result, 1, m - 1) \o SubSeq(result, m + 1, Len(result))
         IN  <<result[m]>> \o nlargest(n - 1, rest)

\* the loop of get_close_matches: the (score, x) of the possibilities that
\* pass the three ratio tests
RECURSIVE Scored(_, _)
Scored(word, possibilities) ==
    IF Len(possibilities) = 0 THEN <<>>
    ELSE LET x == possibilities[1]
         IN  (IF /\ AtLeastCutoff(real_quick_ratio(x, word))
                 /\ AtLeastCutoff(quick_ratio(x, word))
              THEN LET r == ratio(x, word)
                   IN  IF AtLeastCutoff(r)
                       THEN <<[score |-> r, x |-> x]>> ELSE <<>>
              ELSE <<>>)
             \o Scored(word, Tail(possibilities))

\* get_close_matches returning the matches in the dictionary's order, not
\* the best first
get_close_matches_unsorted(word, possibilities, n) ==
    LET all == Scored(word, possibilities)
    IN  [i \in 1..Min(n, Len(all)) |-> all[i].x]

\* difflib.get_close_matches(word, possibilities, n, cutoff=0.7)
get_close_matches(word, possibilities, n) ==
    LET top == nlargest(n, Scored(word, possibilities))
    IN  [i \in 1..Len(top) |-> top[i].x]


---------------------------------------------------------------------------
(* Session & sentence builder *)

\* the default factory of sessions (a defaultdict), called at time t
new_session(t) ==
    [pred_hist |-> <<>>,
     stable_label |-> None,
     stable_count |-> 0,
     last_hand_ts |-> t,
     committed_letters |-> <<>>,
     sentence |-> <<>>]

\* wordlist = [w.strip().lower() for w in f if w.strip()]; a missing file
\* (lines = <<>> here) leaves wordlist = []
RECURSIVE load_wordlist(_)
load_wordlist(lines) ==
    IF Len(lines) = 0 THEN <<>>
    ELSE (IF Len(Strip(lines[1])) > 0
          THEN <<Lower(Strip(lines[1]))>> ELSE <<>>)
         \o load_wordlist(Tail(lines))

\* a deque without maxlen
deque_append_unbounded(d, x) == Append(d, x)

\* deque(maxlen=SMOOTH_WINDOW).append(x)
deque_append(d, x) ==
    IF Len(d) >= SMOOTH_WINDOW THEN Tail(d) \o <<x>> ELSE Append(d, x)

\* the entries majority_vote_label does not skip
Accepted(e) == e.lbl # None /\ e.conf >= MIN_CONFIDENCE_TO_ACCEPT

\* lines 236-244: the loop that fills counts and confs; items holds one
\* record per key, in the order the dict got its keys, with sum(confs[lbl])
RECURSIVE tally(_, _)
tally(pred_hist, items) ==
    IF Len(pred_hist) = 0 THEN items
    ELSE LET e == pred_hist[1]
             at == {i \in 1..Len(items) : items[i].lbl = e.lbl}
         IN  IF ~Accepted(e) THEN tally(Tail(pred_hist), items)
             ELSE IF at = {}
             THEN tally(Tail(pred_hist),
                        Append(items, [lbl |-> e.lbl, count |-> 1, confs |-> e.conf]))
             ELSE LET i == CHOOSE k \in at : TRUE
                  IN  tally(Tail(pred_hist),
                            [items EXCEPT ![i].count = @ + 1, ![i].confs = @ + e.conf])

\* the key without the sum of the confidences
vote_less_by_count(x, y) == x.count < y.count

\* key(x) < key(y) for the key (count, sum of the confidences)
vote_less(x, y) ==
    \/ x.count < y.count
    \/ x.count = y.count /\ x.confs < y.confs

\* max(items, key): the first of the greatest items
RECURSIVE vote_max(_, _)
vote_max(items, best) ==
    IF Len(items) = 0 THEN best
    ELSE vote_max(Tail(items), IF vote_less(best, items[1]) THEN items[1] ELSE best)

majority_vote_label(pred_hist) ==
    LET items == tally(pred_hist, <<>>)
    IN  IF Len(items) = 0
        THEN [lbl |-> None, avg_conf |-> [num |-> 0, den |-> 1]]
        ELSE LET best == vote_max(Tail(items), items[1])
             IN  [lbl |-> best.lbl,
                  avg_conf |-> [num |-> best.confs, den |-> best.count]]

\* the str no correction returns for "no change" is Python's None
NoWord == <<"None">>

\* correct_last_word writing the lowercased token back when nothing matches
correct_last_word_writes_lower(s, words) ==
    LET sent == RStrip(s.sentence)
        parts == Split(sent)
        last == Lower(parts[Len(parts)])
        candidates == get_close_matches(last, words, max_suggestions)
        best == IF Len(candidates) > 0 THEN candidates[1] ELSE last
        new_sent == Join([parts EXCEPT ![Len(parts)] = best])
                    \o (IF EndsWithSep(s.sentence) THEN <<Sep>> ELSE <<>>)
    IN  IF Len(sent) = 0 THEN [s |-> s, best |-> NoWord]
        ELSE [s |-> [s EXCEPT !.sentence = new_sent],
              best |-> IF Len(candidates) > 0 THEN best ELSE NoWord]

\* correct_last_word on session s: the session after it and what it returns
correct_last_word(s, words) ==
    LET sent == RStrip(s.sentence)
        parts == Split(sent)
        last == Lower(parts[Len(parts)])
        candidates == get_close_matches(last, words, max_suggestions)
    IN  IF Len(sent) = 0 \/ Len(words) = 0 THEN [s |-> s, best |-> NoWord]
        ELSE IF Len(last) = 0 THEN [s |-> s, best |-> NoWord]
        ELSE IF Len(candidates) > 0
        THEN LET best == candidates[1]
                 new_parts == [parts EXCEPT ![Len(parts)] = best]
                 new_sent == Join(new_parts)
                             \o (IF EndsWithSep(s.sentence) THEN <<Sep>> ELSE <<>>)
             IN  [s |-> [s EXCEPT !.sentence = new_sent], best |-> best]
        ELSE [s |-> s, best |-> NoWord]

\* lines 273-275: the hand timestamp and the push onto the window
push_frame(s, ts, label_idx, confidence, hand_present) ==
    [s EXCEPT !.last_hand_ts = IF hand_present THEN ts ELSE @,
              !.pred_hist = deque_append(@, [lbl |-> label_idx, conf |-> confidence])]

\* update_stable counting every call that has a smoother output
update_stable_counts_any(s, stable_lbl) ==
    IF stable_lbl = None
    THEN [s EXCEPT !.stable_label = None, !.stable_count = 0]
    ELSE [s EXCEPT !.stable_label = stable_lbl, !.stable_count = @ + 1]

\* update_stable that starts the run of a new candidate at 0
update_stable_from_zero(s, stable_lbl) ==
    IF stable_lbl = None
    THEN [s EXCEPT !.stable_label = None, !.stable_count = 0]
    ELSE IF s.stable_label = stable_lbl
    THEN [s EXCEPT !.stable_count = @ + 1]
    ELSE [s EXCEPT !.stable_label = stable_lbl, !.stable_count = 0]

\* lines 276-285: the run of the stable candidate
update_stable(s, stable_lbl) ==
    IF stable_lbl = None
    THEN [s EXCEPT !.stable_label = None, !.stable_count = 0]
    ELSE IF s.stable_label = stable_lbl
    THEN [s EXCEPT !.stable_count = @ + 1]
    ELSE [s EXCEPT !.stable_label = stable_lbl, !.stable_count = 1]

\* lines 292-295: the character of a committed label index
label_char(lbls, committed) ==
    IF Len(lbls) > 0 /\ committed < Len(lbls)
    THEN lbls[committed + 1] ELSE StrOfInt(committed)

\* append_letter without the collapse of repeats
append_letter_always(s, ch) ==
    [s EXCEPT !.committed_letters = Append(@, ch), !.sentence = @ \o ch]

\* lines 296-299: collapse repeats
append_letter(s, ch) ==
    IF Len(s.committed_letters) = 0
       \/ s.committed_letters[Len(s.committed_letters)] # ch
    THEN [s EXCEPT !.committed_letters = Append(@, ch),
                   !.sentence = @ \o ch]
    ELSE s

\* commit_step committing one frame late (> for >=)
commit_step_late(s, lbls) ==
    IF s.stable_label # None /\ s.stable_count > HOLD_FRAMES
    THEN LET committed == s.stable_label
             cleared == [s EXCEPT !.stable_label = None,
                                  !.stable_count = 0,
                                  !.pred_hist = <<>>]
         IN  [s |-> append_letter(cleared, label_char(lbls, committed)),
              committed |-> committed]
    ELSE [s |-> s, committed |-> None]

\* commit_step that resets the run and the window only when it appends
commit_step_keeps_window(s, lbls) ==
    IF s.stable_label # None /\ s.stable_count >= HOLD_FRAMES
    THEN LET committed == s.stable_label
             cleared == [s EXCEPT !.stable_label = None, !.stable_count = 0,
                                  !.pred_hist = <<>>]
             ch == label_char(lbls, committed)
         IN  [s |-> IF Len(s.committed_letters) > 0
                       /\ s.committed_letters[Len(s.committed_letters)] = ch
                    THEN s ELSE append_letter(cleared, ch),
              committed |-> committed]
    ELSE [s |-> s, committed |-> None]

\* commit_step that leaves the candidate and its run length
commit_step_keeps_run(s, lbls) ==
    IF s.stable_label # None /\ s.stable_count >= HOLD_FRAMES
    THEN LET committed == s.stable_label
             cleared == [s EXCEPT !.pred_hist = <<>>]
         IN  [s |-> append_letter(cleared, label_char(lbls, committed)),
              committed |-> committed]
    ELSE [s |-> s, committed |-> None]

\* lines 286-299: the commit
commit_step(s, lbls) ==
    IF s.stable_label # None /\ s.stable_count >= HOLD_FRAMES
    THEN LET committed == s.stable_label
             cleared == [s EXCEPT !.stable_label = None,
                                  !.stable_count = 0,
                                  !.pred_hist = <<>>]
         IN  [s |-> append_letter(cleared, label_char(lbls, committed)),
              committed |-> committed]
    ELSE [s |-> s, committed |-> None]

\* word_boundary appending the separator without looking at the sentence's end
word_boundary_always_sep(s, ts, words) ==
    LET time_since_hand == ts - s.last_hand_ts
    IN  IF time_since_hand >= WORD_PAUSE_SECONDS /\ Len(s.committed_letters) > 0
        THEN correct_last_word([s EXCEPT !.sentence = @ \o <<Sep>>], words).s
        ELSE s

\* the word boundary without the test of committed_letters
word_boundary_any_pause(s, ts, words) ==
    LET time_since_hand == ts - s.last_hand_ts
    IN  IF time_since_hand >= WORD_PAUSE_SECONDS
        THEN LET spaced == IF ~EndsWithSep(s.sentence)
                           THEN [s EXCEPT !.sentence = @ \o <<Sep>>] ELSE s
             IN  correct_last_word(spaced, words).s
        ELSE s

\* lines 300-305: the word boundary
word_boundary(s, ts, words) ==
    LET time_since_hand == ts - s.last_hand_ts
    IN  IF time_since_hand >= WORD_PAUSE_SECONDS /\ Len(s.committed_letters) > 0
        THEN LET spaced == IF ~EndsWithSep(s.sentence)
                           THEN [s EXCEPT !.sentence = @ \o <<Sep>>] ELSE s
             IN  correct_last_word(spaced, words).s
        ELSE s

\* session_add_frame with the word boundary in an else branch of the commit
session_add_frame_boundary_else(s, ts, label_idx, confidence, hand_present, lbls, words) ==
    LET s1 == push_frame(s, ts, label_idx, confidence, hand_present)
        s2 == update_stable(s1, majority_vote_label(s1.pred_hist).lbl)
        c3 == commit_step(s2, lbls)
    IN  [s |-> IF c3.committed = None THEN word_boundary(c3.s, ts, words) ELSE c3.s,
         committed |-> c3.committed]

\* session_add_frame on session s at time ts: the session after the call
\* and the committed label index it returns
session_add_frame(s, ts, label_idx, confidence, hand_present, lbls, words) ==
    LET s1 == push_frame(s, ts, label_idx, confidence, hand_present)
        s2 == update_stable(s1, majority_vote_label(s1.pred_hist).lbl)
        c3 == commit_step(s2, lbls)
    IN  [s |-> word_boundary(c3.s, ts, words), committed |-> c3.committed]


---------------------------------------------------------------------------
(* The inputs of the model *)

\* time.time() advances by one of these between two reads
Dts == {0, WORD_PAUSE_SECONDS \div 2, WORD_PAUSE_SECONDS}

\* the classifier's confidences: one below the threshold, one on it
Confs == {MIN_CONFIDENCE_TO_ACCEPT - 10, MIN_CONFIDENCE_TO_ACCEPT}

\* the classifier's label indices (np.argmax over the model's outputs)
LabelIdx == {0, 1}

\* labels.json
LabelFile == <<<<"A">>, <<"b">>>>

\* wordlist.txt: missing, or these lines
WordlistFiles == {<<>>, <<<<"a", "b", "b">>, <<>>, <<" ", "B", "a">>>>}

\* a label of the history: the accepted label index, None for a frame
\* without a hand, LowConf for a frame whose confidence is below the threshold
LowConf == None - 1
ObsKey(label_idx, confidence, hand_present) ==
    IF ~hand_present THEN None
    ELSE IF confidence >= MIN_CONFIDENCE_TO_ACCEPT THEN label_idx ELSE LowConf

\* The history of a client's session since it was created:
\*   scen  "run": every observation so far was an accepted one of label key,
\*         n of them; "gap": HOLD_FRAMES accepted observations of key, one
\*         frame without a hand, then n accepted observations of key; "off":
\*         anything else
\*   tail  the last observation's label and how many observations in a row
\*         carried it (counted up to HOLD_FRAMES)
\*   seps  the separators appended since the last frame with a hand
\*   prev  the last observation, flips: how often an observation differed
\*         from the one before it
\*   since the observations processed since the last one that returned a
\*         committed symbol, or since the session was created (counted up to
\*         HOLD_FRAMES)
NoHist ==
    [scen |-> [phase |-> "run", key |-> None, n |-> 0],
     tail |-> [key |-> None, n |-> 0],
     seps |-> 0,
     prev |-> <<>>,
     flips |-> 0,
     since |-> 0]

Off == [phase |-> "off", key |-> None, n |-> 0]

scen_add(sc, key) ==
    CASE sc.phase = "run" /\ sc.n = 0 ->
            IF key \in LabelIdx THEN [phase |-> "run", key |-> key, n |-> 1] ELSE Off
      [] sc.phase = "run" /\ sc.n > 0 ->
            IF key = sc.key /\ sc.n < 2 * HOLD_FRAMES THEN [sc EXCEPT !.n = @ + 1]
            ELSE IF key = None /\ sc.n = HOLD_FRAMES
            THEN [phase |-> "gap", key |-> sc.key, n |-> 0]
            ELSE Off
      [] sc.phase = "gap" ->
            IF key = sc.key /\ sc.n < HOLD_FRAMES THEN [sc EXCEPT !.n = @ + 1]
            ELSE Off
      [] OTHER -> Off

\* the history after one more observation, which appended nsep separators
\* and returned committed
hist_add(h, obs, key, hand_present, nsep, committed) ==
    [prev |-> <<obs>>,
     flips |-> IF h.prev \in {<<>>, <<obs>>} THEN h.flips ELSE h.flips + 1,
     scen |-> scen_add(h.scen, key),
     tail |-> IF h.tail.key = key /\ h.tail.n > 0
              THEN [key |-> key, n |-> Min(h.tail.n + 1, HOLD_FRAMES)]
              ELSE [key |-> key, n |-> 1],
     seps |-> (IF hand_present THEN 0 ELSE h.seps) + nsep,
     since |-> IF committed # None THEN 0 ELSE Min(h.since + 1, HOLD_FRAMES)]

\* how many separators str holds
NumSeps(str) == Count(str, Sep)

\* the client identifiers: 'default' is the endpoints' fallback
ClientIds == {"default", "c2"}

NoRet == [client |-> "", committed |-> None, sentence |-> <<>>]

---------------------------------------------------------------------------
(* The service, one request at a time *)

Init ==
    /\ labels = LabelFile
    /\ \E f \in WordlistFiles : wordlist = load_wordlist(f)
    /\ clients = {"default"}
    /\ sessions = <<>>
    /\ now = 0
    /\ threads = <<>>
    /\ heap = <<>>
    /\ ret = NoRet
    /\ hist = [c \in ClientIds |-> NoHist]

\* sessions[client_id] of the defaultdict at time t: the stored session, or a
\* new one which the lookup stores
lookup(store, client_id, t) ==
    IF client_id \in DOMAIN store THEN store[client_id] ELSE new_session(t)

\* a store that keeps one session for every client
store_put_shared(store, client_id, s) ==
    [x \in DOMAIN store \cup {client_id} |-> s]

store_put(store, client_id, s) ==
    [x \in DOMAIN store \cup {client_id} |-> IF x = client_id THEN s ELSE store[x]]

\* sessions.pop(client_id, None) that only empties the sentence
store_pop_sentence_only(store, client_id) ==
    [x \in DOMAIN store |->
        IF x = client_id THEN [store[x] EXCEPT !.sentence = <<>>] ELSE store[x]]

\* sessions.pop(client_id, None)
store_pop(store, client_id) ==
    [x \in DOMAIN store \ {client_id} |-> store[x]]

\* one observation of the predict endpoint: session_add_frame, then
\* get_session_sentence
Observe(c, label_idx, confidence, hand_present) ==
    \E d0 \in (IF c \in DOMAIN sessions THEN {0} ELSE Dts), d1 \in Dts :
      \E r \in {session_add_frame(lookup(sessions, c, now + d0), now + d0 + d1,
                                  label_idx, confidence, hand_present,
                                  labels, wordlist)} :
        LET ts == now + d0 + d1
            before == IF c \in DOMAIN sessions THEN sessions[c].sentence ELSE <<>>
            nsep == IF NumSeps(r.s.sentence) > NumSeps(before) THEN 1 ELSE 0
            h == hist_add(hist[c], <<label_idx, confidence, hand_present>>,
                          ObsKey(label_idx, confidence, hand_present),
                          hand_present, nsep, r.committed)
        IN  /\ c \in clients
            /\ ts <= MaxTime
            /\ r.committed # None => Len(r.s.committed_letters) <= MaxLetters
            /\ h.flips <= MaxFlips
            /\ now' = ts
            /\ sessions' = store_put(sessions, c, r.s)
            /\ ret' = [client |-> c, committed |-> r.committed,
                       sentence |-> r.s.sentence]
            /\ hist' = [hist EXCEPT ![c] = h]
            /\ UNCHANGED <<labels, wordlist, clients, threads, heap>>

\* predict_sign_endpoint, a hand was found: lines 367-408
PredictHand(c) ==
    \E idx \in LabelIdx, confidence \in Confs : Observe(c, idx, confidence, TRUE)

\* predict_sign_endpoint, no hand was found: lines 361-365
PredictNoHand(c) == Observe(c, None, 0, FALSE)

\* a get_sentence_endpoint that runs the word boundary before it answers
GetSentence_closing(c) ==
    \E d0 \in (IF c \in DOMAIN sessions THEN {0} ELSE Dts) :
      \E s \in {word_boundary(lookup(sessions, c, now + d0), now + d0, wordlist)} :
        /\ now + d0 <= MaxTime
        /\ now' = now + d0
        /\ sessions' = store_put(sessions, c, s)
        /\ ret' = [client |-> c, committed |-> None, sentence |-> s.sentence]
        /\ UNCHANGED <<labels, wordlist, clients, threads, heap, hist>>

\* get_sentence_endpoint: the lookup stores a new session for an unknown client
GetSentence(c) ==
    \E d0 \in (IF c \in DOMAIN sessions THEN {0} ELSE Dts) :
        /\ now + d0 <= MaxTime
        /\ now' = now + d0
        /\ sessions' = store_put(sessions, c, lookup(sessions, c, now + d0))
        /\ ret' = [client |-> c, committed |-> None,
                   sentence |-> lookup(sessions, c, now + d0).sentence]
        /\ UNCHANGED <<labels, wordlist, clients, threads, heap, hist>>

\* reset_sentence_endpoint: sessions.pop(client_id, None)
ResetSentence(c) ==
    /\ sessions' = store_pop(sessions, c)
    /\ ret' = [NoRet EXCEPT !.client = c]
    /\ hist' = [hist EXCEPT ![c] = NoHist]
    /\ UNCHANGED <<labels, wordlist, clients, threads, heap, now>>

Next ==
    \E c \in clients :
        \/ PredictHand(c)
        \/ PredictNoHand(c)
        \/ GetSentence(c)
        \/ ResetSentence(c)

Spec == Init /\ [][Next]_vars


---------------------------------------------------------------------------
(* Properties *)

\* "".join(letters)
RECURSIVE Flatten(_)
Flatten(letters) ==
    IF Len(letters) = 0 THEN <<>> ELSE letters[1] \o Flatten(Tail(letters))

IsSep(ch) == ch = Sep
NotSep(ch) == ch # Sep

\* str without its separators
StripSeps(str) == SelectSeq(str, NotSep)

NoDoubleSep(str) == \A i \in 1..(Len(str) - 1) : ~(str[i] = Sep /\ str[i + 1] = Sep)

NoEqualAdjacent(letters) ==
    \A i \in 1..(Len(letters) - 1) : letters[i] # letters[i + 1]

\* the scenario of client c is a run of n accepted observations of label L
RunOf(h, L, n) == h.scen = [phase |-> "run", key |-> L, n |-> n]

\* C1: in a new session, HOLD_FRAMES accepted observations of one label L in
\* a row commit L exactly once: the calls before the HOLD_FRAMES-th return
\* no committed symbol and leave committed_letters and sentence empty, the
\* HOLD_FRAMES-th returns L and leaves committed_letters = [L's character]
\* and sentence = L's character.
C1_HoldCommitsOnce ==
    [][\A c \in ClientIds, L \in LabelIdx, n \in 1..HOLD_FRAMES :
          (RunOf(hist'[c], L, n) /\ hist[c].scen # hist'[c].scen)
          => /\ ret'.client = c
             /\ ret'.sentence = sessions'[c].sentence
             /\ n < HOLD_FRAMES =>
                  /\ ret'.committed = None
                  /\ sessions'[c].committed_letters = <<>>
                  /\ sessions'[c].sentence = <<>>
             /\ n = HOLD_FRAMES =>
                  /\ ret'.committed = L
                  /\ sessions'[c].committed_letters = <<label_char(labels, L)>>
                  /\ sessions'[c].sentence = label_char(labels, L)]_vars

C1_Witness ==
    \E L \in LabelIdx :
        /\ RunOf(hist["default"], L, HOLD_FRAMES)
        /\ ret.committed = L
        /\ sessions["default"].sentence = label_char(labels, L)

\* C2: in a new session, HOLD_FRAMES accepted observations of L, one frame
\* without a hand, then HOLD_FRAMES more accepted observations of L, with no
\* word boundary in between, leave two L characters in sentence.
C2_GapAllowsDoubledLetter ==
    \A c \in DOMAIN sessions, L \in LabelIdx :
        (/\ hist[c].scen = [phase |-> "gap", key |-> L, n |-> HOLD_FRAMES]
         /\ NumSeps(sessions[c].sentence) = 0)
        => sessions[c].sentence = label_char(labels, L) \o label_char(labels, L)

\* C3: over any call, committed_letters only grows, by at most one element,
\* and never holds two equal adjacent entries; HOLD_FRAMES accepted
\* observations of L directly followed by HOLD_FRAMES more leave exactly one L
\* in sentence.
C3_AppendOnlyCollapsed ==
    [][\A c \in DOMAIN sessions' :
          LET new == sessions'[c].committed_letters
              old == IF c \in DOMAIN sessions
                     THEN sessions[c].committed_letters ELSE <<>>
          IN  /\ \/ new = old
                 \/ Len(new) = Len(old) + 1 /\ SubSeq(new, 1, Len(old)) = old
              /\ NoEqualAdjacent(new)
              /\ \A L \in LabelIdx :
                    RunOf(hist'[c], L, 2 * HOLD_FRAMES)
                    => sessions'[c].sentence = label_char(labels, L)]_vars

C3_Witness ==
    \E L \in LabelIdx :
        /\ RunOf(hist["default"], L, 2 * HOLD_FRAMES)
        /\ ret.committed = L
        /\ sessions["default"].committed_letters = <<label_char(labels, L)>>

\* C4: no sentence ever holds two consecutive separators.
C4_NoDoubleSeparator ==
    \A c \in DOMAIN sessions : NoDoubleSep(sessions[c].sentence)

C4_Witness ==
    /\ "default" \in DOMAIN sessions
    /\ EndsWithSep(sessions["default"].sentence)
    /\ hist["default"].tail = [key |-> None, n |-> HOLD_FRAMES]
    /\ hist["default"].seps = 1
    /\ Len(wordlist) > 0

\* C6: a call commits label L only if the HOLD_FRAMES most recent
\* observations fed to the session, the committing one included, all carried
\* L with an accepted confidence.
C6_CommitNeedsHoldFramesOfL ==
    \A c \in ClientIds :
        (ret.client = c /\ ret.committed # None)
        => hist[c].tail = [key |-> ret.committed, n |-> HOLD_FRAMES]

\* C7: within one run of consecutive frames without a hand, at most one
\* separator is appended to sentence.
C7_OneSeparatorPerAbsence ==
    \A c \in ClientIds : hist[c].seps <= 1

\* C9: with an empty dictionary the sentence without its separators is the
\* concatenation of committed_letters and correct_last_word changes nothing
\* and returns no word; the same holds of correct_last_word for any
\* dictionary when sentence holds no token.
C9_NoDictionaryNoChange ==
    \A c \in DOMAIN sessions :
        LET s == sessions[c]
        IN  /\ (Len(wordlist) = 0 \/ Len(RStrip(s.sentence)) = 0)
               => correct_last_word(s, wordlist) = [s |-> s, best |-> NoWord]
            /\ Len(wordlist) = 0
               => StripSeps(s.sentence) = Flatten(s.committed_letters)

C9_Witness ==
    /\ Len(wordlist) = 0
    /\ "default" \in DOMAIN sessions
    /\ Len(sessions["default"].committed_letters) = 2
    /\ EndsWithSep(sessions["default"].sentence)


---------------------------------------------------------------------------
(* The word boundary and the corrector on sentences spelled with more     *)
(* labels: the session starts as a script of commits and pauses left it.  *)

\* bound: the commits and pauses that built the initial sentence
MaxScript == 4

\* labels.json of this configuration
SpellLabelFile == <<<<"H">>, <<"e">>, <<"l">>, <<"o">>>>

\* wordlist.txt of this configuration
SpellWordlistFiles ==
    {<<>>,
     <<<<"h", "e", "l", "l", "o">>>>,
     <<<<" ", "H", "e", "l">>, <<"h", "e", "l", "l", "o">>, <<>>, <<"o", "h">>>>}

\* an event of a script: the commit of a label index, or a pause
Pause == None
ScriptEvents == (0..(Len(SpellLabelFile) - 1)) \cup {Pause}
Scripts == UNION {[1..n -> ScriptEvents] : n \in 0..MaxScript}

\* the session after the commits (lines 292-299) and the word boundaries
\* (lines 300-305, WORD_PAUSE_SECONDS after the last hand) of a script
RECURSIVE run_script(_, _, _, _)
run_script(s, script, lbls, words) ==
    IF Len(script) = 0 THEN s
    ELSE LET e == script[Len(script)]
         IN  CHOOSE after \in
                {IF e = Pause
                 THEN word_boundary(r, r.last_hand_ts + WORD_PAUSE_SECONDS, words)
                 ELSE append_letter(r, label_char(lbls, e)) :
                    r \in {run_script(s, SubSeq(script, 1, Len(script) - 1),
                                      lbls, words)}} : TRUE

InitSpell ==
    /\ labels = SpellLabelFile
    /\ \E f \in SpellWordlistFiles : wordlist = load_wordlist(f)
    /\ clients = {"default"}
    /\ \E script \in Scripts :
          sessions = [c \in {"default"} |->
                        run_script(new_session(0), script, labels, wordlist)]
    /\ now = 0
    /\ threads = <<>>
    /\ heap = <<>>
    /\ ret = NoRet
    /\ hist = [c \in ClientIds |-> NoHist]

NextSpell == \E c \in clients : PredictNoHand(c)

SpecSpell == InitSpell /\ [][NextSpell]_vars

\* the tokens of the sentence the corrector sees when the boundary fires on
\* sentence str
TokensAtBoundary(str) ==
    Split(RStrip(IF EndsWithSep(str) THEN str ELSE str \o <<Sep>>))

\* the indices of the dictionary entries within the cutoff of tok
Close(tok) == {i \in 1..Len(wordlist) : AtLeastCutoff(ratio(wordlist[i], tok))}

\* score(i) <= score(j), ties by the greater word
NotBetter(tok, i, j) ==
    LET ri == ratio(wordlist[i], tok)
        rj == ratio(wordlist[j], tok)
    IN  \/ ri.num * rj.den < rj.num * ri.den
        \/ /\ ri.num * rj.den = rj.num * ri.den
           /\ ~StrLess(wordlist[j], wordlist[i])

\* C8: when the word boundary fires and some dictionary entry is within the
\* cutoff of the lowercased last token, the sentence after the call is the
\* earlier tokens unchanged, then the best such entry, then one separator;
\* with hello in the dictionary the token helo becomes hello.
C8_CorrectsLastToken ==
    [][\A c \in DOMAIN sessions :
          LET s == sessions[c]
              toks == TokensAtBoundary(s.sentence)
              tok == Lower(toks[Len(toks)])
              fires == /\ now' - s.last_hand_ts >= WORD_PAUSE_SECONDS
                       /\ Len(s.committed_letters) > 0
          IN  (fires /\ Close(tok) # {})
              => /\ \E i \in Close(tok) :
                      /\ \A j \in Close(tok) : NotBetter(tok, j, i)
                      /\ sessions'[c].sentence =
                             Join([toks EXCEPT ![Len(toks)] = wordlist[i]])
                             \o <<Sep>>
                 /\ tok = <<"h", "e", "l", "o">>
                    => LET new == Split(RStrip(sessions'[c].sentence))
                       IN  new = [toks EXCEPT ![Len(toks)] =
                                     <<"h", "e", "l", "l", "o">>]]_vars

C8_Witness ==
    /\ sessions["default"].committed_letters = SpellLabelFile
    /\ sessions["default"].sentence = <<"h", "e", "l", "l", "o", " ">>
    /\ Len(wordlist) > 1

---------------------------------------------------------------------------
(* Reset: client "default" is used, then reset; from then on the callers  *)
(* send every observation twice and at the same times, for "default" and  *)
(* for the never seen client "c2" (clients = {"c2"} from then on).        *)

\* the callers send each observation for "default" and for "c2"
Following == clients = {"c2"}

\* the same observation sent for "default" and for "c2"
TwinObserve(label_idx, confidence, hand_present) ==
    \E d0 \in (IF ClientIds \subseteq DOMAIN sessions THEN {0} ELSE Dts),
       d1 \in Dts :
      \E r \in {[c \in ClientIds |->
                    session_add_frame(lookup(sessions, c, now + d0),
                        now + d0 + d1, label_idx, confidence, hand_present,
                        labels, wordlist)]} :
        LET ts == now + d0 + d1
            before == IF "default" \in DOMAIN sessions
                      THEN sessions["default"].sentence ELSE <<>>
            nsep == IF NumSeps(r["default"].s.sentence) > NumSeps(before) THEN 1 ELSE 0
            h == hist_add(hist["default"],
                          <<label_idx, confidence, hand_present>>,
                          ObsKey(label_idx, confidence, hand_present),
                          hand_present, nsep, r["default"].committed)
        IN  /\ Following
            /\ ts <= MaxTime
            /\ r["default"].committed # None => Len(r["default"].s.committed_letters) <= MaxLetters
            /\ h.flips <= MaxFlips
            /\ now' = ts
            /\ sessions' = store_put(store_put(sessions, "default", r["default"].s),
                                     "c2", r["c2"].s)
            /\ ret' = [client |-> "default", committed |-> r["default"].committed,
                       sentence |-> r["default"].s.sentence,
                       twin |-> [committed |-> r["c2"].committed,
                                 sentence |-> r["c2"].s.sentence]]
            /\ hist' = [c \in ClientIds |-> h]
            /\ UNCHANGED <<labels, wordlist, clients, threads, heap>>

TwinPredictHand ==
    \E idx \in LabelIdx, confidence \in Confs : TwinObserve(idx, confidence, TRUE)

TwinPredictNoHand == TwinObserve(None, 0, FALSE)

\* POST /api/sentence/reset for c; "c2" starts to follow
ResetAndFollow(c) ==
    /\ c \in clients
    /\ c \in DOMAIN sessions
    /\ sessions' = store_pop(sessions, c)
    /\ clients' = {"c2"}
    /\ ret' = [NoRet EXCEPT !.client = c]
    /\ hist' = [hist EXCEPT ![c] = NoHist]
    /\ UNCHANGED <<labels, wordlist, threads, heap, now>>

\* the client that was reset, until the first observation sent to both
Followed == IF Following /\ "c2" \notin DOMAIN sessions THEN {"default"} ELSE {}

NextReset ==
    \/ PredictHand("default")
    \/ PredictNoHand("default")
    \/ ResetAndFollow("default")
    \/ TwinPredictHand
    \/ TwinPredictNoHand
    \/ \E c \in Followed : GetSentence(c)

SpecReset == Init /\ [][NextReset]_vars

\* the fields of a session but the time of the last hand
Pipeline(s) ==
    <<s.pred_hist, s.stable_label, s.stable_count, s.committed_letters,
      s.sentence>>

\* C10: after the reset of c, GET returns the empty sentence, and every
\* observation sent to c and to a never seen client returns the same committed
\* symbol and the same sentence, and leaves both with the same window,
\* candidate, run length, committed_letters and sentence.
C10_ResetIsFresh ==
    Following
    => /\ "twin" \in DOMAIN ret
          => /\ ret.twin.committed = ret.committed
             /\ ret.twin.sentence = ret.sentence
             /\ Pipeline(sessions["default"]) = Pipeline(sessions["c2"])
       /\ "c2" \notin DOMAIN sessions
          => /\ ret.sentence = <<>>
             /\ "default" \in DOMAIN sessions
                => Pipeline(sessions["default"]) = Pipeline(new_session(0))

C10_Witness ==
    /\ Following
    /\ "twin" \in DOMAIN ret
    /\ ret.committed # None
    /\ Len(sessions["c2"].committed_letters) = MaxLetters
    /\ NumSeps(ret.sentence) > 0

---------------------------------------------------------------------------
(* Requests served by threads: app.run serves each request on a thread of *)
(* its own and no statement of app.py takes a lock, so the statements of  *)
(* two requests interleave.  Here a session is an object of heap, the     *)
(* store maps a client to the index of its object, and a step of a thread *)
(* is one or a few consecutive statements of session_add_frame.           *)

\* bound: the threads serving requests
NumThreads == 2
\* bound: the requests one client sends
MaxRequests == 2

Threads == 1..NumThreads

\* the observations the requests carry: (label_idx, confidence, hand_present)
ThreadObs == {<<0, MIN_CONFIDENCE_TO_ACCEPT, TRUE>>, <<None, 0, FALSE>>}

\* time.time() advances by one of these between two reads of a thread
ThreadDts == {0, WORD_PAUSE_SECONDS}

IdleThread ==
    [pc |-> "idle", client_id |-> "", label_idx |-> None, confidence |-> 0,
     hand_present |-> FALSE, s |-> None, ts |-> 0, stable_lbl |-> None,
     committed |-> None, ch |-> <<>>]

\* history of a client: the requests it has sent; alone, empty or the session
\* its store entry began with; reqs, the observations session_add_frame has
\* taken up since, each with the time it read (line 272)
NoCalls == [calls |-> 0, alone |-> <<>>, reqs |-> <<>>]

\* the session after session s has served the observations obs, one request
\* at a time and with the clock at t
RECURSIVE served(_, _, _, _)
served(s, t, obs, words) ==
    IF Len(obs) = 0 THEN s
    ELSE LET o == obs[Len(obs)]
         IN  CHOOSE after \in
                {session_add_frame(r, t, o[1], o[2], o[3], LabelFile, words).s :
                    r \in {served(s, t, SubSeq(obs, 1, Len(obs) - 1), words)}} :
                TRUE

\* i accepted observations of label 0, then j observations without a hand
Served(i, j) ==
    [k \in 1..(i + j) |->
        IF k <= i THEN <<0, MIN_CONFIDENCE_TO_ACCEPT, TRUE>>
        ELSE <<None, 0, FALSE>>]

\* the store is empty, or holds the session of "default" as requests served
\* one at a time have left it
InitThreads ==
    /\ labels = LabelFile
    /\ \E f \in WordlistFiles : wordlist = load_wordlist(f)
    /\ clients = {"default"}
    /\ now = 0
    /\ \/ /\ sessions = <<>>
          /\ heap = <<>>
          /\ hist = [c \in ClientIds |-> NoCalls]
       \/ \E i \in 0..HOLD_FRAMES, j \in 0..(SMOOTH_WINDOW - HOLD_FRAMES) :
             /\ sessions = [c \in {"default"} |-> 1]
             /\ heap = <<served(new_session(now), now, Served(i, j), wordlist)>>
             /\ hist = [c \in ClientIds |->
                          IF c \in DOMAIN sessions
                          THEN [NoCalls EXCEPT !.alone = <<heap[sessions[c]]>>]
                          ELSE NoCalls]
    /\ threads = [t \in Threads |-> IdleThread]
    /\ ret = NoRet

\* thread t moves to pc with its locals changed by the EXCEPT of loc
goto(t, loc, pc) == [threads EXCEPT ![t] = [loc EXCEPT !.pc = pc]]

\* sessions[client_id] of the defaultdict, the default factory run and the
\* new object stored in the same step: the store, the heap and the reference
getitem(store, objs, client_id, t) ==
    IF client_id \in DOMAIN store
    THEN [store |-> store, heap |-> objs, ref |-> store[client_id]]
    ELSE [store |-> store_put(store, client_id, Len(objs) + 1),
          heap |-> Append(objs, new_session(t)),
          ref |-> Len(objs) + 1]

\* lines 360-364 and 398-399: a predict request of client c arrives and
\* calls session_add_frame
RequestFor(t, c) ==
    /\ threads[t].pc = "idle"
    /\ hist[c].calls < MaxRequests
    /\ \E obs \in ThreadObs :
          threads' = goto(t, [IdleThread EXCEPT !.client_id = c,
                                                !.label_idx = obs[1],
                                                !.confidence = obs[2],
                                                !.hand_present = obs[3]],
                          "l271")
    /\ hist' = [hist EXCEPT ![c].calls = @ + 1]
    /\ UNCHANGED <<labels, wordlist, sessions, now, heap, ret, clients>>

Request(t) == \E c \in clients : RequestFor(t, c)

\* line 271, s = sessions[client_id]: the key is found, or the default
\* factory (line 212) builds a session that is not stored yet
L271(t) ==
    LET loc == threads[t]
    IN  /\ loc.pc = "l271"
        /\ IF loc.client_id \in DOMAIN sessions
           THEN /\ threads' = goto(t, [loc EXCEPT !.s = sessions[loc.client_id]],
                                   "l272")
                /\ heap' = heap
           ELSE /\ threads' = goto(t, [loc EXCEPT !.s = Len(heap) + 1], "l271_set")
                /\ heap' = Append(heap, new_session(now))
        /\ UNCHANGED <<labels, wordlist, sessions, now, ret, clients, hist>>

\* line 271, the defaultdict stores what its factory returned
L271Set(t) ==
    LET loc == threads[t]
    IN  /\ loc.pc = "l271_set"
        /\ sessions' = store_put(sessions, loc.client_id, loc.s)
        /\ threads' = goto(t, loc, "l272")
        /\ UNCHANGED <<labels, wordlist, now, heap, ret, clients, hist>>

\* lines 272-275: the timestamp, last_hand_ts and the window
L272(t) ==
    LET loc == threads[t]
        c == loc.client_id
    IN  /\ loc.pc = "l272"
        /\ \E d \in ThreadDts :
              /\ now + d <= MaxTime
              /\ now' = now + d
              /\ heap' = [heap EXCEPT ![loc.s] =
                            push_frame(@, now + d, loc.label_idx,
                                       loc.confidence, loc.hand_present)]
              /\ threads' = goto(t, [loc EXCEPT !.ts = now + d], "l276")
              /\ hist' = [hist EXCEPT
                            ![c].alone = IF Len(@) = 0
                                         THEN <<new_session(heap[loc.s].last_hand_ts)>>
                                         ELSE @,
                            ![c].reqs = Append(@, <<loc.label_idx, loc.confidence,
                                                    loc.hand_present, now + d>>)]
        /\ UNCHANGED <<labels, wordlist, sessions, ret, clients>>

\* line 276: the smoother
L276(t) ==
    LET loc == threads[t]
    IN  /\ loc.pc = "l276"
        /\ threads' = goto(t, [loc EXCEPT !.stable_lbl =
                                  majority_vote_label(heap[loc.s].pred_hist).lbl],
                           "l277")
        /\ UNCHANGED <<labels, wordlist, sessions, now, heap, ret, clients, hist>>

\* lines 277-278, 280-282 and 284: the first write of the run update
L277(t) ==
    LET loc == threads[t]
        s == heap[loc.s]
    IN  /\ loc.pc = "l277"
        /\ IF loc.stable_lbl = None
           THEN /\ heap' = [heap EXCEPT ![loc.s].stable_label = None]
                /\ threads' = goto(t, loc, "l279")
           ELSE IF s.stable_label = loc.stable_lbl
           THEN /\ heap' = [heap EXCEPT ![loc.s].stable_count = @ + 1]
                /\ threads' = goto(t, loc, "l286")
           ELSE /\ heap' = [heap EXCEPT ![loc.s].stable_label = loc.stable_lbl]
                /\ threads' = goto(t, loc, "l285")
        /\ UNCHANGED <<labels, wordlist, sessions, now, ret, clients, hist>>

\* line 279
L279(t) ==
    LET loc == threads[t]
    IN  /\ loc.pc = "l279"
        /\ heap' = [heap EXCEPT ![loc.s].stable_count = 0]
        /\ threads' = goto(t, loc, "l286")
        /\ UNCHANGED <<labels, wordlist, sessions, now, ret, clients, hist>>

\* line 285
L285(t) ==
    LET loc == threads[t]
    IN  /\ loc.pc = "l285"
        /\ heap' = [heap EXCEPT ![loc.s].stable_count = 1]
        /\ threads' = goto(t, loc, "l286")
        /\ UNCHANGED <<labels, wordlist, sessions, now, ret, clients, hist>>

\* lines 286-287: the test of the commit
L286(t) ==
    LET loc == threads[t]
        s == heap[loc.s]
    IN  /\ loc.pc = "l286"
        /\ threads' = goto(t, [loc EXCEPT !.committed = None],
                           IF s.stable_label # None /\ s.stable_count >= HOLD_FRAMES
                           THEN "l288" ELSE "l301")
        /\ UNCHANGED <<labels, wordlist, sessions, now, heap, ret, clients, hist>>

\* line 288
L288(t) ==
    LET loc == threads[t]
    IN  /\ loc.pc = "l288"
        /\ threads' = goto(t, [loc EXCEPT !.committed = heap[loc.s].stable_label],
                           "l289")
        /\ UNCHANGED <<labels, wordlist, sessions, now, heap, ret, clients, hist>>

\* lines 289-295: the reset of the run and the committed character; a
\* candidate another thread had cleared before line 288 is None, and
\* None < len(labels) raises TypeError, which the endpoint (lines 410-413)
\* answers with status 500
L289(t) ==
    LET loc == threads[t]
    IN  /\ loc.pc = "l289"
        /\ heap' = [heap EXCEPT ![loc.s].stable_label = None,
                                ![loc.s].stable_count = 0,
                                ![loc.s].pred_hist = <<>>]
        /\ IF Len(labels) > 0 /\ loc.committed = None
           THEN /\ threads' = goto(t, IdleThread, "idle")
                /\ ret' = [client |-> loc.client_id, committed |-> None,
                           sentence |-> <<>>, status |-> 500]
           ELSE /\ threads' = goto(t, [loc EXCEPT !.ch =
                                          IF loc.committed = None THEN NoWord[1]
                                          ELSE label_char(labels, loc.committed)],
                                   "l297")
                /\ ret' = ret
        /\ UNCHANGED <<labels, wordlist, sessions, now, clients, hist>>

\* line 297: the test of the collapse
L297(t) ==
    LET loc == threads[t]
        s == heap[loc.s]
    IN  /\ loc.pc = "l297"
        /\ threads' = goto(t, loc,
                           IF \/ Len(s.committed_letters) = 0
                              \/ s.committed_letters[Len(s.committed_letters)] # loc.ch
                           THEN "l298" ELSE "l301")
        /\ UNCHANGED <<labels, wordlist, sessions, now, heap, ret, clients, hist>>

\* lines 298-299
L298(t) ==
    LET loc == threads[t]
    IN  /\ loc.pc = "l298"
        /\ heap' = [heap EXCEPT ![loc.s].committed_letters = Append(@, loc.ch),
                                ![loc.s].sentence = @ \o loc.ch]
        /\ threads' = goto(t, loc, "l301")
        /\ UNCHANGED <<labels, wordlist, sessions, now, ret, clients, hist>>

\* lines 301-303: the tests of the word boundary
L301(t) ==
    LET loc == threads[t]
        s == heap[loc.s]
        time_since_hand == loc.ts - s.last_hand_ts
    IN  /\ loc.pc = "l301"
        /\ threads' = goto(t, loc,
              IF time_since_hand >= WORD_PAUSE_SECONDS
                 /\ Len(s.committed_letters) > 0
              THEN (IF ~EndsWithSep(s.sentence) THEN "l304" ELSE "l305")
              ELSE "l400")
        /\ UNCHANGED <<labels, wordlist, sessions, now, heap, ret, clients, hist>>

\* line 304
L304(t) ==
    LET loc == threads[t]
    IN  /\ loc.pc = "l304"
        /\ heap' = [heap EXCEPT ![loc.s].sentence = @ \o <<Sep>>]
        /\ threads' = goto(t, loc, "l305")
        /\ UNCHANGED <<labels, wordlist, sessions, now, ret, clients, hist>>

\* line 305: correct_last_word(client_id), which looks the session up again
L305(t) ==
    LET loc == threads[t]
        g == getitem(sessions, heap, loc.client_id, now)
    IN  /\ loc.pc = "l305"
        /\ sessions' = g.store
        /\ heap' = [g.heap EXCEPT ![g.ref] = correct_last_word(@, wordlist).s]
        /\ threads' = goto(t, loc, "l400")
        /\ UNCHANGED <<labels, wordlist, now, ret, clients, hist>>

\* lines 400-408: get_session_sentence(client_id) and the response
L400(t) ==
    LET loc == threads[t]
        g == getitem(sessions, heap, loc.client_id, now)
    IN  /\ loc.pc = "l400"
        /\ sessions' = g.store
        /\ heap' = g.heap
        /\ ret' = [client |-> loc.client_id, committed |-> loc.committed,
                   sentence |-> g.heap[g.ref].sentence]
        /\ threads' = goto(t, IdleThread, "idle")
        /\ UNCHANGED <<labels, wordlist, now, clients, hist>>

NextThreads ==
    \E t \in Threads :
        \/ Request(t)
        \/ L271(t)
        \/ L271Set(t)
        \/ L272(t)
        \/ L276(t)
        \/ L277(t)
        \/ L279(t)
        \/ L285(t)
        \/ L286(t)
        \/ L288(t)
        \/ L289(t)
        \/ L297(t)
        \/ L298(t)
        \/ L301(t)
        \/ L304(t)
        \/ L305(t)
        \/ L400(t)

SpecThreads == InitThreads /\ [][NextThreads]_vars

\* no request is in flight
Quiescent == \A t \in Threads : threads[t].pc = "idle"

\* C5: whatever the interleaving of the requests of one client, once they
\* have all returned its stored session has no two equal adjacent committed
\* letters, no two consecutive separators in sentence, and a run length that
\* is zero exactly when there is no candidate.
C5_SerializedInvariants ==
    Quiescent
    => \A c \in DOMAIN sessions :
          LET s == heap[sessions[c]]
          IN  /\ NoEqualAdjacent(s.committed_letters)
              /\ NoDoubleSep(s.sentence)
              /\ (s.stable_label = None) <=> (s.stable_count = 0)

---------------------------------------------------------------------------
(* session_add_frame called with a confidence that is no number *)

\* a confidence float() does not take: a str that spells no number
NotFloat == LowConf - 1

\* session_add_frame(c, label_idx, NotFloat, hand_present): lines 271-274
\* run, then float(confidence) of line 275 raises ValueError
AddFrameNotFloat(c) ==
    \E d0 \in (IF c \in DOMAIN sessions THEN {0} ELSE Dts), d1 \in Dts,
       hand_present \in BOOLEAN :
        LET s == lookup(sessions, c, now + d0)
            ts == now + d0 + d1
        IN  /\ c \in clients
            /\ ts <= MaxTime
            /\ now' = ts
            /\ sessions' = store_put(sessions, c,
                              [s EXCEPT !.last_hand_ts =
                                           IF hand_present THEN ts ELSE @])
            /\ ret' = [client |-> c, committed |-> None, sentence |-> <<>>,
                       raised |-> "ValueError"]
            /\ UNCHANGED <<labels, wordlist, clients, threads, heap, hist>>

NextMalformed ==
    \E c \in clients :
        \/ PredictHand(c)
        \/ PredictNoHand(c)
        \/ AddFrameNotFloat(c)

SpecMalformed == Init /\ [][NextMalformed]_vars

\* C11: a call with a malformed confidence is rejected with the session
\* store exactly as before the call: no session created, no field changed.
C11_MalformedLeavesStore ==
    [][("raised" \in DOMAIN ret') => sessions' = sessions]_vars

\* C12: a session is stored for a client only once an observation of that
\* client has been processed since its last reset: GET and reset create none.
C12_SessionOnlyAfterObservation ==
    \A c \in DOMAIN sessions : hist[c] # NoHist

\* C14: requests arriving together for a new client create exactly one
\* session, and every request past line 271 works on the stored session of
\* its client.
C14_OneSessionCreated ==
    /\ Len(heap) <= 1
    /\ \A t \in Threads :
          threads[t].pc \notin {"idle", "l271", "l271_set"}
          => /\ threads[t].client_id \in DOMAIN sessions
             /\ sessions[threads[t].client_id] = threads[t].s

\* C17: the corrector (line 305) is invoked only by a call that found
\* sentence without a trailing separator and appended one; stated for calls
\* that run while no other request is in flight.
C17_CorrectorOncePerBoundary ==
    [][\A t \in Threads :
          (/\ threads[t].pc = "l301"
           /\ threads'[t].pc = "l305"
           /\ \A u \in Threads \ {t} : threads[u].pc = "idle")
          => ~EndsWithSep(heap[threads[t].s].sentence)]_vars

---------------------------------------------------------------------------
(* Two clients, each with at most one request in flight: the statements of *)
(* session_add_frame for one client interleave with those for the other,   *)
(* and a client with no predict request in flight may read or reset        *)

\* the thread that serves the requests of client c
ClientThread(c) == IF c = "default" THEN 1 ELSE 2

\* the clients in the order the store met them
ClientSeq == <<"default", "c2">>

\* a client is new, or its session has served this many accepted
\* observations of label 0: "default" is one short of a commit, "c2" has
\* committed
StartRuns(c) ==
    IF c = "default" THEN {None, HOLD_FRAMES - 1} ELSE {None, HOLD_FRAMES}

\* wordlist.txt of the two-client runs
ClientsWordlistFile == <<<<"a", "b", "b">>, <<>>, <<" ", "B", "a">>, <<"a">>>>

InitClients ==
    /\ labels = LabelFile
    /\ wordlist = load_wordlist(ClientsWordlistFile)
    /\ clients = ClientIds
    /\ now = 0
    /\ \E k \in {f \in [ClientIds -> {None} \cup 0..HOLD_FRAMES] :
                   \A c \in ClientIds : f[c] \in StartRuns(c)} :
          LET present == SelectSeq(ClientSeq, LAMBDA c : k[c] # None)
          IN  /\ heap = [i \in 1..Len(present) |->
                           served(new_session(now), now,
                                  Served(k[present[i]], 0), wordlist)]
              /\ sessions = [c \in {present[i] : i \in 1..Len(present)} |->
                               CHOOSE i \in 1..Len(present) : present[i] = c]
    /\ hist = [c \in ClientIds |->
                 IF c \in DOMAIN sessions
                 THEN [NoCalls EXCEPT !.alone = <<heap[sessions[c]]>>]
                 ELSE NoCalls]
    /\ threads = [t \in Threads |-> IdleThread]
    /\ ret = NoRet

\* get_sentence_endpoint (lines 418-421) of a client with no predict request
\* in flight
GetIdle(c) ==
    LET g == getitem(sessions, heap, c, now)
    IN  /\ threads[ClientThread(c)].pc = "idle"
        /\ hist[c].calls < MaxRequests
        /\ sessions' = g.store
        /\ heap' = g.heap
        /\ ret' = [client |-> c, committed |-> None,
                   sentence |-> g.heap[g.ref].sentence]
        /\ hist' = [hist EXCEPT ![c].calls = @ + 1,
                                ![c].alone = IF Len(@) = 0
                                             THEN <<new_session(now)>> ELSE @]
        /\ UNCHANGED <<labels, wordlist, now, threads, clients>>

\* reset_sentence_endpoint (lines 423-427) of a client with no predict
\* request in flight
ResetIdle(c) ==
    /\ threads[ClientThread(c)].pc = "idle"
    /\ hist[c].calls < MaxRequests
    /\ sessions' = store_pop(sessions, c)
    /\ ret' = [NoRet EXCEPT !.client = c]
    /\ hist' = [hist EXCEPT ![c].calls = @ + 1, ![c].alone = <<>>,
                            ![c].reqs = <<>>]
    /\ UNCHANGED <<labels, wordlist, now, threads, heap, clients>>

NextClients ==
    \E c \in clients :
        \/ RequestFor(ClientThread(c), c)
        \/ L271(ClientThread(c))
        \/ L271Set(ClientThread(c))
        \/ L272(ClientThread(c))
        \/ L276(ClientThread(c))
        \/ L277(ClientThread(c))
        \/ L279(ClientThread(c))
        \/ L285(ClientThread(c))
        \/ L286(ClientThread(c))
        \/ L288(ClientThread(c))
        \/ L289(ClientThread(c))
        \/ L297(ClientThread(c))
        \/ L298(ClientThread(c))
        \/ L301(ClientThread(c))
        \/ L304(ClientThread(c))
        \/ L305(ClientThread(c))
        \/ L400(ClientThread(c))
        \/ GetIdle(c)
        \/ ResetIdle(c)

SpecClients == InitClients /\ [][NextClients]_vars

\* the store's entry of client c: empty, or its session
Entry(store, objs, c) ==
    IF c \in DOMAIN store THEN <<objs[store[c]]>> ELSE <<>>

\* session s after the requests reqs, each run alone and in one step at the
\* time it read
RECURSIVE replay(_, _, _)
replay(s, reqs, words) ==
    IF Len(reqs) = 0 THEN s
    ELSE LET o == reqs[Len(reqs)]
         IN  CHOOSE after \in
                {session_add_frame(r, o[4], o[1], o[2], o[3], LabelFile, words).s :
                    r \in {replay(s, SubSeq(reqs, 1, Len(reqs) - 1), words)}} :
                TRUE

\* the store's entry of a client with history h had its requests run alone
Alone(h) ==
    IF Len(h.alone) = 0 THEN <<>>
    ELSE <<replay(h.alone[1], h.reqs, wordlist)>>

\* the step is none of client c's requests
NotOf(c) ==
    /\ threads'[ClientThread(c)] = threads[ClientThread(c)]
    /\ hist'[c] = hist[c]

\* the step leaves client c with no request in flight
Idle(c) == threads'[ClientThread(c)].pc = "idle"

\* C13: a step of a request of one client leaves the store's entry and the
\* session of every other client as they are, and when a request of a client
\* returns and leaves it with none in flight its entry is what its own
\* requests, run alone and one at a time, leave: under every interleaving
\* with the other client.
C13_ClientsIsolated ==
    [][\A c \in ClientIds :
          /\ NotOf(c)
             => /\ Entry(sessions', heap', c) = Entry(sessions, heap, c)
                /\ c \in DOMAIN sessions => sessions'[c] = sessions[c]
          /\ (~NotOf(c) /\ Idle(c))
             => Entry(sessions', heap', c) = Alone(hist'[c])]_vars

\* one client commits a letter while the other is at its word boundary, and
\* both have had a request served before
C13_Witness ==
    /\ threads[1].pc = "l298"
    /\ threads[2].pc = "l305"
    /\ \A c \in ClientIds : hist[c].calls = MaxRequests /\ c \in DOMAIN sessions

---------------------------------------------------------------------------
(* The clock runs on while no request arrives *)

\* time.time() has advanced when the next request reads it
Tick ==
    /\ \E d \in Dts \ {0} :
          /\ now + d <= MaxTime
          /\ now' = now + d
    /\ UNCHANGED <<labels, wordlist, sessions, threads, heap, ret, clients, hist>>

NextReactive ==
    \/ \E c \in clients :
          \/ PredictHand(c)
          \/ PredictNoHand(c)
          \/ GetSentence(c)
          \/ ResetSentence(c)
    \/ Tick

SpecReactive == Init /\ [][NextReactive]_vars

\* C21: only an observation-processing call or a reset changes a session:
\* while time passes and the sentence is read, every stored session stays as
\* it is, so a sentence gains no separator and its last word is not
\* corrected, whatever the time since the last frame with a hand.
C21_BoundaryIsReactive ==
    [][(Tick \/ \E d \in clients : GetSentence(d))
       => \A c \in DOMAIN sessions :
             /\ c \in DOMAIN sessions'
             /\ sessions'[c] = sessions[c]]_vars

\* the pause has long passed since the last letter was committed, the
\* sentence was read, and it still ends with that letter
C21_Witness ==
    \E c \in DOMAIN sessions :
        /\ Len(sessions[c].committed_letters) > 0
        /\ ~EndsWithSep(sessions[c].sentence)
        /\ now - sessions[c].last_hand_ts >= WORD_PAUSE_SECONDS
        /\ Len(wordlist) > 0
        /\ ret = [client |-> c, committed |-> None,
                  sentence |-> sessions[c].sentence]

---------------------------------------------------------------------------
(* Properties of one call of session_add_frame, under Spec *)

\* the step is a call of session_add_frame for client c
IsAddFrame(c) == ret'.client = c /\ c \in DOMAIN sessions' /\ ~GetSentence(c)

\* the session the call found: the stored one, or the new one
Found(c) ==
    IF c \in DOMAIN sessions THEN sessions[c]
    ELSE new_session(sessions'[c].last_hand_ts)

\* the observation of the call, as a window entry
Pushed(c) == [lbl |-> hist'[c].prev[1][1], conf |-> hist'[c].prev[1][2]]

\* the window of the call after its push
WindowOf(c) ==
    LET old == Found(c).pred_hist
    IN  IF Len(old) = SMOOTH_WINDOW THEN Tail(old) \o <<Pushed(c)>>
        ELSE old \o <<Pushed(c)>>

\* the candidate and the run length the rule of the run gives the call
RunOfCall(c) ==
    LET lbl == majority_vote_label(WindowOf(c)).lbl
        pre == Found(c)
    IN  IF lbl = None THEN [label |-> None, count |-> 0]
        ELSE IF lbl = pre.stable_label
        THEN [label |-> lbl, count |-> pre.stable_count + 1]
        ELSE [label |-> lbl, count |-> 1]

\* C16: the window never holds more than SMOOTH_WINDOW entries; a call
\* leaves it empty (a commit) or with the observation appended at the end,
\* the oldest entry dropped when it was full and all others kept in order.
C16_WindowFifo ==
    [][\A c \in DOMAIN sessions' :
          LET new == sessions'[c].pred_hist
          IN  /\ Len(new) <= SMOOTH_WINDOW
              /\ IsAddFrame(c)
                 => \/ ret'.committed # None /\ new = <<>>
                    \/ ret'.committed = None /\ new = WindowOf(c)
              /\ ~IsAddFrame(c) => new = Found(c).pred_hist]_vars

\* a full window of equal entries in a session that never committed and
\* has seen two different observations: the first of them was pushed out
C16_Witness ==
    \E c \in DOMAIN sessions :
        LET w == sessions[c].pred_hist
        IN  /\ Len(w) = SMOOTH_WINDOW
            /\ \A i \in 1..Len(w) : w[i] = w[1]
            /\ hist[c].flips >= 1
            /\ sessions[c].committed_letters = <<>>
            /\ ret.client = c

\* C18: with lbl the smoother's output for the updated window, a call makes
\* the candidate None with run length 0 if lbl is None, adds exactly 1 to
\* the run length if lbl is the candidate, and else makes lbl the candidate
\* with run length 1 (a run that reaches HOLD_FRAMES is then reset by the
\* commit); a run length above 0 grows only when lbl is the candidate.
C18_RunUpdate ==
    [][\A c \in ClientIds :
          IsAddFrame(c)
          => LET run == RunOfCall(c)
                 pre == Found(c)
                 post == sessions'[c]
             IN  /\ run.count < HOLD_FRAMES
                    => /\ post.stable_label = run.label
                       /\ post.stable_count = run.count
                 /\ (pre.stable_count > 0 /\ post.stable_count > pre.stable_count)
                    => /\ post.stable_count = pre.stable_count + 1
                       /\ majority_vote_label(WindowOf(c)).lbl = pre.stable_label]_vars

C18_Witness ==
    \E c \in DOMAIN sessions :
        /\ sessions[c].stable_count = HOLD_FRAMES - 1
        /\ hist[c].flips = MaxFlips
        /\ sessions[c].committed_letters # <<>>

\* C19: a call in which the run length reaches HOLD_FRAMES returns the
\* candidate and leaves candidate None, run length 0 and an empty window,
\* also when the collapse of repeats suppresses the append; then
\* committed_letters is unchanged and sentence is what the word boundary
\* alone makes of it.
C19_CommitResets ==
    [][\A c \in ClientIds :
          (IsAddFrame(c) /\ RunOfCall(c).count >= HOLD_FRAMES)
          => LET pre == Found(c)
                 post == sessions'[c]
                 ch == label_char(labels, RunOfCall(c).label)
                 repeat == /\ Len(pre.committed_letters) > 0
                           /\ pre.committed_letters[Len(pre.committed_letters)] = ch
             IN  /\ ret'.committed = RunOfCall(c).label
                 /\ post.stable_label = None
                 /\ post.stable_count = 0
                 /\ post.pred_hist = <<>>
                 /\ repeat
                    => /\ post.committed_letters = pre.committed_letters
                       /\ post.sentence =
                            word_boundary([pre EXCEPT !.last_hand_ts =
                                                         post.last_hand_ts],
                                          now', wordlist).sentence
                 /\ ~repeat
                    => post.committed_letters =
                          Append(pre.committed_letters, ch)]_vars

C19_Witness ==
    \E c \in DOMAIN sessions, L \in LabelIdx :
        /\ hist[c].scen = [phase |-> "gap", key |-> L, n |-> HOLD_FRAMES]
        /\ ret.committed = L
        /\ sessions[c].pred_hist = <<>>
        /\ sessions[c].committed_letters = <<label_char(labels, L)>>

\* C20: after every call with now - last_hand_ts >= WORD_PAUSE_SECONDS and a
\* committed letter, also a call that committed, sentence ends with exactly
\* one separator; a call appends at most one separator, and only when that
\* condition holds and a letter stands between the separator before and it.
C20_BoundaryEveryCall ==
    [][\A c \in ClientIds :
          IsAddFrame(c)
          => LET pre == Found(c)
                 post == sessions'[c]
                 n == Len(post.sentence)
                 due == /\ now' - post.last_hand_ts >= WORD_PAUSE_SECONDS
                        /\ Len(post.committed_letters) > 0
             IN  /\ due => /\ n >= 2
                           /\ post.sentence[n] = Sep
                           /\ post.sentence[n - 1] # Sep
                 /\ NumSeps(post.sentence) > NumSeps(pre.sentence)
                    => /\ due
                       /\ NumSeps(post.sentence) = NumSeps(pre.sentence) + 1
                       /\ \/ Len(pre.sentence) > 0 /\ ~EndsWithSep(pre.sentence)
                          \/ Len(post.committed_letters)
                               > Len(pre.committed_letters)
                 /\ ~due => NumSeps(post.sentence) = NumSeps(pre.sentence)]_vars

C20_Witness ==
    \E c \in DOMAIN sessions :
        /\ ret.client = c
        /\ ret.committed # None
        /\ EndsWithSep(sessions[c].sentence)
        /\ now - sessions[c].last_hand_ts >= WORD_PAUSE_SECONDS
        /\ Len(sessions[c].committed_letters) = MaxLetters

\* C22: between calls the run length is at least 0 and below HOLD_FRAMES,
\* the candidate is None exactly when the run length is 0, and a candidate
\* has an entry in the window with its label and a confidence of at least
\* MIN_CONFIDENCE_TO_ACCEPT.
C22_RunWithinHold ==
    \A c \in DOMAIN sessions :
        LET s == sessions[c]
        IN  /\ 0 <= s.stable_count
            /\ s.stable_count < HOLD_FRAMES
            /\ (s.stable_label = None) <=> (s.stable_count = 0)
            /\ s.stable_label # None
               => \E i \in 1..Len(s.pred_hist) :
                     /\ s.pred_hist[i].lbl = s.stable_label
                     /\ s.pred_hist[i].conf >= MIN_CONFIDENCE_TO_ACCEPT

\* one call short of a second commit, the candidate kept up by one accepted
\* entry among frames without a hand
C22_Witness ==
    \E c \in DOMAIN sessions :
        LET s == sessions[c]
        IN  /\ s.stable_count = HOLD_FRAMES - 1
            /\ Len(s.committed_letters) > 0
            /\ Cardinality({i \in 1..Len(s.pred_hist) : Accepted(s.pred_hist[i])}) = 1
            /\ Len(s.pred_hist) = HOLD_FRAMES - 1

\* C23: sentence is empty exactly when committed_letters is empty, and a
\* sentence that is not empty does not begin with a separator: no pause
\* before the first committed letter appends one.
C23_NoLeadingSeparator ==
    \A c \in DOMAIN sessions :
        LET s == sessions[c]
        IN  /\ (Len(s.sentence) = 0) <=> (Len(s.committed_letters) = 0)
            /\ Len(s.sentence) > 0 => s.sentence[1] # Sep

\* a frame without a hand was processed a full pause after the last hand,
\* before any letter was committed
C23_Witness ==
    \E c \in DOMAIN sessions :
        /\ hist[c].prev = <<(<<None, 0, FALSE>>)>>
        /\ ret.client = c
        /\ now - sessions[c].last_hand_ts >= WORD_PAUSE_SECONDS
        /\ sessions[c].committed_letters = <<>>
        /\ sessions[c].sentence = <<>>
        /\ Len(wordlist) > 0

\* C24: a call that returns a committed symbol is at least the
\* HOLD_FRAMES-th call on its session since the last call that returned one,
\* and since the session was created.
C24_CommitsHoldFramesApart ==
    [][\A c \in ClientIds :
          (IsAddFrame(c) /\ ret'.committed # None)
          => hist[c].since + 1 >= HOLD_FRAMES]_vars

\* two commits, of one label and then the other, the second by a run of
\* HOLD_FRAMES observations
C24_Witness ==
    \E c \in DOMAIN sessions :
        /\ ret.client = c
        /\ ret.committed # None
        /\ hist[c].since = 0
        /\ hist[c].tail = [key |-> ret.committed, n |-> HOLD_FRAMES]
        /\ hist[c].flips = 1
        /\ Len(sessions[c].committed_letters) = 2

---------------------------------------------------------------------------
(* majority_vote_label on the windows of sessions that have served up to  *)
(* MaxWindow observations                                                  *)

\* bound: the observations served before the vote
MaxWindow == 4

\* the observations: none without a hand, or a label with a confidence below,
\* on and above the threshold
VoteObs ==
    {<<None, 0, FALSE>>}
    \cup {<<l, cf, TRUE>> :
            l \in LabelIdx, cf \in Confs \cup {MIN_CONFIDENCE_TO_ACCEPT + 10}}

InitVote ==
    /\ labels = LabelFile
    /\ wordlist = <<>>
    /\ clients = {"default"}
    /\ now = 0
    /\ \E n \in 0..MaxWindow : \E obs \in [1..n -> VoteObs] :
          sessions = [c \in {"default"} |->
                        served(new_session(now), now, obs, wordlist)]
    /\ threads = <<>>
    /\ heap = <<>>
    /\ ret = NoRet
    /\ hist = [c \in ClientIds |-> NoHist]

\* line 276: majority_vote_label(s["pred_hist"]), nothing else
Vote(c) ==
    /\ c \in DOMAIN sessions
    /\ ret' = [client |-> c, committed |-> None, sentence |-> <<>>,
               vote |-> majority_vote_label(sessions[c].pred_hist)]
    /\ UNCHANGED <<labels, wordlist, sessions, now, threads, heap, clients, hist>>

NextVote == \E c \in clients : Vote(c)

SpecVote == InitVote /\ [][NextVote]_vars

\* the entries of window w that count for label l
VotesFor(w, l) == {i \in 1..Len(w) : Accepted(w[i]) /\ w[i].lbl = l}

\* the sum of the confidences of the entries I of window w
RECURSIVE ConfSum(_, _)
ConfSum(w, I) ==
    IF I = {} THEN 0
    ELSE LET i == CHOOSE k \in I : TRUE
         IN  w[i].conf + ConfSum(w, I \ {i})

\* the first entry among I
First(I) == CHOOSE i \in I : \A k \in I : i <= k

\* v is the vote the claim gives window w
VoteOk(w, v) ==
    LET L == {w[i].lbl : i \in {k \in 1..Len(w) : Accepted(w[k])}}
    IN  /\ L = {} => v = [lbl |-> None, avg_conf |-> [num |-> 0, den |-> 1]]
        /\ L # {}
           => /\ v.lbl \in L
              /\ v.avg_conf = [num |-> ConfSum(w, VotesFor(w, v.lbl)),
                               den |-> Cardinality(VotesFor(w, v.lbl))]
              /\ \A l \in L \ {v.lbl} :
                   LET nl == Cardinality(VotesFor(w, l))
                       nv == Cardinality(VotesFor(w, v.lbl))
                       sl == ConfSum(w, VotesFor(w, l))
                       sv == ConfSum(w, VotesFor(w, v.lbl))
                   IN  \/ nl < nv
                       \/ nl = nv /\ sl < sv
                       \/ /\ nl = nv /\ sl = sv
                          /\ First(VotesFor(w, v.lbl)) < First(VotesFor(w, l))

\* C15: the vote returns (None, 0.0) when no entry of the window has a label
\* and a confidence of at least MIN_CONFIDENCE_TO_ACCEPT; else a label with the
\* most such entries, among those one with the greatest sum of confidences,
\* among those the one met first in the window, with the mean confidence of
\* its entries; the session and its window are left as they are.
C15_VoteIsMaximal ==
    [][\A c \in DOMAIN sessions :
          (ret'.client = c /\ "vote" \in DOMAIN ret')
          => /\ sessions' = sessions
             /\ VoteOk(sessions[c].pred_hist, ret'.vote)]_vars

C15_Witness ==
    \E c \in DOMAIN sessions :
        LET w == sessions[c].pred_hist
        IN  /\ "vote" \in DOMAIN ret
            /\ ret.vote.lbl # None
            /\ \E l \in LabelIdx \ {ret.vote.lbl} :
                  /\ Cardinality(VotesFor(w, l)) = Cardinality(VotesFor(w, ret.vote.lbl))
                  /\ ConfSum(w, VotesFor(w, l)) < ConfSum(w, VotesFor(w, ret.vote.lbl))
                  /\ First(VotesFor(w, l)) < First(VotesFor(w, ret.vote.lbl))

============================================================================
